---- MODULE Spec2Model ----
(***************************************************************************)
(* Key lifecycle engine of github_key_manager.py: the key document kept as *)
(* one JSON file in a GitHub repository, the fetch / mutate / conditional  *)
(* write protocol of add_key, remove_key and cleanup_expired, and the      *)
(* in-process removal timers.                                              *)
(*                                                                         *)
(* Time is a natural number of seconds.  An optional value (Python None or *)
(* a value) is the empty sequence or a one-element sequence.               *)
(***************************************************************************)
EXTENDS Integers, Sequences, FiniteSets, Bags, TLC

\* ---------------------------------------------------------------- bounds
MaxTime == 1          \* the clock stops advancing here
MaxOps == 2           \* number of operations callers invoke in one behaviour

\* ------------------------------------------------------- input universes
Procs == {"p1", "p2"}                 \* threads / processes running operations
ProcOrder(p) == IF p = "p1" THEN 1 ELSE 2
KeyIds == {"a", " a", "007"}          \* --key-id arguments
Durations == {<<>>, <<1>>}            \* None (lifetime) or seconds
KeyValue == "v1"
AddedBy == "script"

\* ------------------------------------------------------------ timestamps
\* expires_at as stored: JSON null, an ISO string with offset ("aware", what
\* add_key writes), an ISO string without offset ("naive"), or a string
\* datetime.fromisoformat rejects ("bad").
ExpNull == [kind |-> "null", t |-> 0]
ExpAware(t) == [kind |-> "aware", t |-> t]
ExpNaive(t) == [kind |-> "naive", t |-> t]
ExpBad == [kind |-> "bad", t |-> 0]

\* iso_to_dt: succeeds on ISO strings, raises on anything else
iso_to_dt_ok(x) == x.kind \in {"aware", "naive"}

\* ------------------------------------------------------------ id strings
\* str.strip() on the id universe
strip(s) == IF s = " a" THEN "a" ELSE s

\* int(key_id) succeeds on decimal strings
int_ok(s) == s \in {"7", "007"}

\* str(int(s)): the canonical decimal form of a decimal string
int_str(s) == IF s \in {"7", "007"} THEN "7" ELSE s

\* a dict key in memory: a Python str, or a Python int (kept by its decimal form)
StrKey(s) == [int |-> FALSE, s |-> s]
IntKey(s) == [int |-> TRUE, s |-> int_str(s)]

\* add_key: key_id_stored = int(key_id), or key_id when that raises ValueError
key_id_stored(key_id) == IF int_ok(key_id) THEN IntKey(key_id) ELSE StrKey(key_id)

\* ---------------------------------------------------------- Python dicts
\* a dict is the sequence of its items in insertion order, keys distinct
DictHas(d, k) == \E i \in 1..Len(d) : d[i].k = k

DictGet(d, k) == d[CHOOSE i \in 1..Len(d) : d[i].k = k].e

DictSet(d, k, e) ==
    IF DictHas(d, k)
    THEN [i \in 1..Len(d) |-> IF d[i].k = k THEN [k |-> k, e |-> e] ELSE d[i]]
    ELSE Append(d, [k |-> k, e |-> e])

DictPopTest(it, k) == it.k # k

DictPop(d, k) == SelectSeq(d, LAMBDA it : DictPopTest(it, k))

DictKeys(d) == {d[i].k : i \in 1..Len(d)}

\* ------------------------------------------------------- JSON text of file
\* The text of a JSON object is the sequence of its members, names being
\* strings; json.dumps writes one member per dict item, an int key as its
\* decimal form; json.loads builds the dict member by member.
JsonKey(k) == k.s

json_dumps(d) == [i \in 1..Len(d) |-> [k |-> JsonKey(d[i].k), e |-> d[i].e]]

RECURSIVE LoadPairs(_, _)
LoadPairs(items, d) ==
    IF items = <<>> THEN d
    ELSE LoadPairs(Tail(items), DictSet(d, StrKey(Head(items).k), Head(items).e))

json_loads(items) == LoadPairs(items, <<>>)

\* ------------------------------------------------------------ the store
\* The file at keys_path: absent, or present with a content that is valid
\* JSON or not.  The sha of the file is the hash of its content: equal
\* contents have equal shas, so the sha is modelled by the content itself,
\* and sha None by NoFile.
NoFile == [exists |-> FALSE, valid |-> FALSE, items |-> <<>>]
Malformed == [exists |-> TRUE, valid |-> FALSE, items |-> <<>>]
JsonFile(items) == [exists |-> TRUE, valid |-> TRUE, items |-> items]

\* _get_file taking a content that is not valid JSON for a missing file
get_file_malformed_as_missing(f) ==
    [data |-> IF f.exists /\ f.valid THEN json_loads(f.items) ELSE <<>>,
     sha |-> IF f.exists /\ f.valid THEN f ELSE NoFile]

\* _get_file: (data, sha)
get_file(f) ==
    [data |-> IF f.exists /\ f.valid THEN json_loads(f.items) ELSE <<>>,
     sha |-> IF f.exists THEN f ELSE NoFile]

\* _write_file accepting whatever sha it is given (a forced write)
write_file_forced(f, data, sha) ==
    [ok |-> TRUE, file |-> JsonFile(json_dumps(data))]

\* _write_file: update_file is refused unless sha is the sha of the file in
\* the repository, create_file is refused when the file exists
write_file(f, data, sha) ==
    LET content == JsonFile(json_dumps(data))
    IN IF sha.exists
       THEN IF f.exists /\ f = sha
            THEN [ok |-> TRUE, file |-> content]
            ELSE [ok |-> FALSE, file |-> f]
       ELSE IF ~f.exists
            THEN [ok |-> TRUE, file |-> content]
            ELSE [ok |-> FALSE, file |-> f]

MkEntry(value, expires_at, added_by, added_at) ==
    [value |-> value, expires_at |-> expires_at,
     added_by |-> added_by, added_at |-> added_at]

\* documents the repository may hold before the first operation
\* added_at: the clock reading in seconds, and the sub-second part of the
\* reading, which no two readings share
Stamp(t, u) == [t |-> t, u |-> u]

InitialFiles ==
    { NoFile,
      Malformed,
      JsonFile(<< [k |-> "a", e |-> MkEntry("v0", ExpNull, "x", Stamp(0, 0))],
                  [k |-> " a", e |-> MkEntry("v0", ExpBad, "x", Stamp(0, 0))],
                  [k |-> "7", e |-> MkEntry("v0", ExpAware(1), "x", Stamp(0, 0))] >>),
      JsonFile(<< [k |-> "7", e |-> MkEntry("v0", ExpNaive(1), "x", Stamp(0, 0))] >>) }

VARIABLES
    file,       \* the file in the repository
    now,        \* the clock
    procs,      \* per thread: the operation in flight between fetch and write
    timers,     \* bag of the started threading.Timer objects that have not fired
    ops,        \* operations invoked so far
    last,       \* the operation that completed most recently
    expected,   \* ids added minus ids successfully removed (sequential runs)
    cleaned,    \* a cleanup run completed and nothing was written since: its
                \* clock reading, and whether a further run found nothing
    script      \* cleanup_keys.py: its two local files and its latest run

vars == <<file, now, procs, timers, ops, last, expected, cleaned, script>>

\* cleanup_keys.py has not run and its files are not there
NoScript ==
    [data |-> NoFile, keys |-> [exists |-> FALSE, lines |-> <<>>],
     ran |-> [valid |-> FALSE, at |-> 0, again |-> FALSE,
              data |-> NoFile, keys |-> [exists |-> FALSE, lines |-> <<>>]]]
\* ran: the latest run's clock reading, whether it follows a run at the same
\* reading, and the two files as it found them

\* ------------------------------------------------------ operation records
IdleProc ==
    [pc |-> "idle", op |-> "none", origin |-> "caller", id |-> "",
     duration |-> <<>>, stored |-> "", data |-> <<>>, sha |-> NoFile,
     readNow |-> 0, nFetch |-> 0, nWrite |-> 0,
     since |-> 0, racer |-> "", racerWrote |-> NoFile]

NoLast ==
    [op |-> "none", origin |-> "caller", result |-> "none", raced |-> FALSE,
     uncaught |-> FALSE, listed |-> <<>>, malformed |-> FALSE, io |-> {}]

NotCleaned == [valid |-> FALSE, at |-> 0, again |-> FALSE]

\* the requests an operation has made to the GitHub API
Calls(pr) ==
    (IF pr.nFetch > 0 THEN {"get_contents"} ELSE {})
    \cup (IF pr.nWrite > 0
          THEN {IF pr.sha.exists THEN "update_file" ELSE "create_file"}
          ELSE {})

\* remove_later runs remove_key inside try / except Exception and prints
\* what it catches; a caller's operation runs under no handler
caught(origin) == origin = "timer"

\* the record of a completed operation; uncaught: it ended on an exception
\* that nothing on its thread caught; listed: what list_keys returned;
\* malformed: the content it fetched was not valid JSON; io: the requests
\* it made to the GitHub API
Done(pr, result) ==
    [op |-> pr.op, origin |-> pr.origin, result |-> result,
     raced |-> (pr.since = 1 /\ pr.racer # ""),
     uncaught |-> (result \in {"conflict", "error"} /\ ~caught(pr.origin)),
     listed |-> <<>>,
     malformed |-> (pr.sha.exists /\ ~pr.sha.valid),
     io |-> Calls(pr)]

\* bookkeeping of an operation q that has fetched and not yet written, when
\* thread p's operation prp has just written newfile: the number of writes
\* since q's fetch (2 for two or more) and, when the write is the first one
\* and prp had fetched the same version as q, the writer and what it wrote
Raced(prq, p, prp, newfile) ==
    IF prq.since = 0
    THEN [prq EXCEPT !.since = 1,
                     !.racer = IF prp.since = 0 THEN p ELSE "",
                     !.racerWrote = IF prp.since = 0 THEN newfile ELSE NoFile]
    ELSE [prq EXCEPT !.since = 2, !.racer = "", !.racerWrote = NoFile]

\* Threads are interchangeable: a new operation runs on the first thread
\* that has none in flight.
FirstIdle(p) ==
    /\ procs[p].pc = "idle"
    /\ \A q \in Procs : procs[q].pc = "idle" => ProcOrder(p) <= ProcOrder(q)

\* ---------------------------------------------------------------- add_key
\* the duration left out of the sum
expires_at_iso_no_ttl(duration, t) ==
    IF duration = <<>> THEN ExpNull ELSE ExpAware(t)

\* expires_at_iso: None, or now + timedelta(seconds=duration)
expires_at_iso(duration, t) ==
    IF duration = <<>> THEN ExpNull ELSE ExpAware(t + duration[1])

\* the entry add_key builds at clock reading t, sub-second part u
add_entry(key_value, duration, added_by, t, u) ==
    MkEntry(key_value, expires_at_iso(duration, t), added_by, Stamp(t, u))

\* data[key_id_stored] = entry
add_mutate(data, key_id, entry) == DictSet(data, key_id_stored(key_id), entry)

\* add_key up to the call of _write_file
AddKey(p, key_id, duration) ==
    /\ FirstIdle(p)
    /\ ops < MaxOps
    /\ LET got == get_file(file)
           entry == add_entry(KeyValue, duration, AddedBy, now, ops + 1)
       IN procs' = [procs EXCEPT ![p] =
              [IdleProc EXCEPT !.pc = "write", !.op = "add",
                   !.id = key_id, !.duration = duration,
                   !.stored = JsonKey(key_id_stored(key_id)),
                   !.data = add_mutate(got.data, key_id, entry),
                   !.sha = got.sha, !.readNow = now, !.nFetch = 1]]
    /\ ops' = ops + 1
    /\ UNCHANGED <<file, now, timers, last, expected, cleaned, script>>

\* ------------------------------------------------------------- remove_key
\* the lookup without strip()
remove_lookup_no_strip(data, key_id) ==
    LET k == StrKey(key_id)
    IN [found |-> DictHas(data, k), data |-> DictPop(data, k)]

\* the lookup of remove_key: strip, membership test, pop
remove_lookup(data, key_id) ==
    LET k == StrKey(strip(key_id))
    IN [found |-> DictHas(data, k), data |-> DictPop(data, k)]

RemoveBody(p, key_id, origin) ==
    LET got == get_file(file)
        look == remove_lookup(got.data, key_id)
        pr == [IdleProc EXCEPT !.op = "remove", !.origin = origin,
                    !.id = key_id, !.sha = got.sha, !.readNow = now, !.nFetch = 1]
    IN /\ IF look.found
          THEN /\ procs' = [procs EXCEPT ![p] =
                      [pr EXCEPT !.pc = "write", !.data = look.data]]
               /\ UNCHANGED last
          ELSE /\ procs' = [procs EXCEPT ![p] = IdleProc]
               /\ last' = Done(pr, "notfound")
       /\ UNCHANGED <<file, now, expected, cleaned, script>>

\* remove_key called by a caller, up to the call of _write_file
RemoveKey(p, key_id) ==
    /\ FirstIdle(p)
    /\ ops < MaxOps
    /\ RemoveBody(p, key_id, "caller")
    /\ ops' = ops + 1
    /\ UNCHANGED timers

\* remove_later: a timer fires once its interval has elapsed and calls
\* remove_key(str(key_id_stored)) in its own thread
TimerFire(p, tm) ==
    /\ BagIn(tm, timers)
    /\ now >= tm.fire
    /\ FirstIdle(p)
    /\ RemoveBody(p, tm.id, "timer")
    /\ timers' = timers (-) SetToBag({tm})
    /\ UNCHANGED ops

\* the process exits: its timers are daemon threads and never fire
ProcessExit ==
    /\ timers # EmptyBag
    /\ timers' = EmptyBag
    /\ UNCHANGED <<file, now, procs, ops, last, expected, cleaned, script>>

\* -------------------------------------------------------- cleanup_expired
\* the comparison written < instead of <=
expired_strictly(expires, t) == expires.t < t

\* expires_dt <= now, between two aware datetimes
expired(expires, t) == expires.t <= t

\* the scan loop with an unparsable expires_at skipped like a lifetime key
RECURSIVE scan_keep_unparsable(_, _, _)
scan_keep_unparsable(items, t, to_remove) ==
    IF items = <<>> THEN [err |-> FALSE, to_remove |-> to_remove]
    ELSE LET k == Head(items).k
             expires == Head(items).e.expires_at
         IN IF expires.kind = "null" \/ ~iso_to_dt_ok(expires)
            THEN scan_keep_unparsable(Tail(items), t, to_remove)
            ELSE IF expires.kind = "naive"
                 THEN [err |-> TRUE, to_remove |-> to_remove]
            ELSE IF expired(expires, t)
                 THEN scan_keep_unparsable(Tail(items), t, Append(to_remove, k))
            ELSE scan_keep_unparsable(Tail(items), t, to_remove)

\* the scan loop without the test for None: iso_to_dt(None) raises and the
\* key is removed "to be safe"
RECURSIVE scan_no_lifetime(_, _, _)
scan_no_lifetime(items, t, to_remove) ==
    IF items = <<>> THEN [err |-> FALSE, to_remove |-> to_remove]
    ELSE LET k == Head(items).k
             expires == Head(items).e.expires_at
         IN IF ~iso_to_dt_ok(expires)
            THEN scan_no_lifetime(Tail(items), t, Append(to_remove, k))
            ELSE IF expires.kind = "naive"
                 THEN [err |-> TRUE, to_remove |-> to_remove]
            ELSE IF expired(expires, t)
                 THEN scan_no_lifetime(Tail(items), t, Append(to_remove, k))
            ELSE scan_no_lifetime(Tail(items), t, to_remove)

\* the scan loop: the keys to remove, or err when comparing a naive
\* datetime with the aware now raises TypeError
RECURSIVE scan(_, _, _)
scan(items, t, to_remove) ==
    IF items = <<>> THEN [err |-> FALSE, to_remove |-> to_remove]
    ELSE LET k == Head(items).k
             expires == Head(items).e.expires_at
         IN IF expires.kind = "null" THEN scan(Tail(items), t, to_remove)
            ELSE IF ~iso_to_dt_ok(expires)
                 THEN scan(Tail(items), t, Append(to_remove, k))
            ELSE IF expires.kind = "naive"
                 THEN [err |-> TRUE, to_remove |-> to_remove]
            ELSE IF expired(expires, t)
                 THEN scan(Tail(items), t, Append(to_remove, k))
            ELSE scan(Tail(items), t, to_remove)

\* for k in to_remove: data.pop(k, None)
RECURSIVE pop_all(_, _)
pop_all(data, to_remove) ==
    IF to_remove = <<>> THEN data
    ELSE pop_all(DictPop(data, Head(to_remove)), Tail(to_remove))

\* cleanup_expired without its two early returns
cleanup_plan_always_write(data, t) ==
    LET s == scan(data, t, <<>>)
    IN IF s.err THEN [outcome |-> "error", to_remove |-> <<>>, data |-> data]
       ELSE [outcome |-> "write", to_remove |-> s.to_remove,
             data |-> pop_all(data, s.to_remove)]

\* what cleanup_expired decides from the fetched data at clock reading t
cleanup_plan(data, t) ==
    IF data = <<>> THEN [outcome |-> "noop", to_remove |-> <<>>, data |-> data]
    ELSE LET s == scan(data, t, <<>>)
         IN IF s.err THEN [outcome |-> "error", to_remove |-> <<>>, data |-> data]
            ELSE IF s.to_remove = <<>>
                 THEN [outcome |-> "noop", to_remove |-> <<>>, data |-> data]
            ELSE [outcome |-> "write", to_remove |-> s.to_remove,
                  data |-> pop_all(data, s.to_remove)]

\* cleanup_expired up to the call of _write_file
CleanupExpired(p) ==
    /\ FirstIdle(p)
    /\ ops < MaxOps
    /\ LET got == get_file(file)
           plan == cleanup_plan(got.data, now)
           pr == [IdleProc EXCEPT !.op = "cleanup", !.sha = got.sha,
                       !.readNow = now, !.nFetch = 1]
       IN IF plan.outcome = "write"
          THEN /\ procs' = [procs EXCEPT ![p] =
                      [pr EXCEPT !.pc = "write", !.data = plan.data]]
               /\ UNCHANGED <<last, cleaned>>
          ELSE /\ procs' = [procs EXCEPT ![p] = IdleProc]
               /\ last' = Done(pr, plan.outcome)
               /\ cleaned' = IF plan.outcome = "noop"
                             THEN [valid |-> TRUE, at |-> now, again |-> cleaned.valid]
                             ELSE cleaned
    /\ ops' = ops + 1
    /\ UNCHANGED <<file, now, timers, expected, script>>

\* ------------------------------------------------------------ _write_file
\* a refused write caught, the sha fetched again and the write repeated
on_conflict_retry(pr, f) == [pr EXCEPT !.sha = f, !.nFetch = @ + 1]

\* a refused write raises out of the operation: nothing catches it and
\* nothing fetches again (f is the file in the repository at that moment)
on_conflict(pr, f) == IdleProc

\* a timer started for every add_key, a lifetime one included
timer_started_always(pr, t) ==
    IF pr.op = "add"
    THEN SetToBag({[id |-> pr.stored,
                    fire |-> IF pr.duration = <<>> THEN t ELSE t + pr.duration[1]]})
    ELSE EmptyBag

\* the timers an operation starts once _write_file has returned, at clock
\* reading t: add_key with a duration starts one, for str(key_id_stored)
timer_started(pr, t) ==
    IF pr.op = "add" /\ pr.duration # <<>>
    THEN SetToBag({[id |-> pr.stored, fire |-> t + pr.duration[1]]})
    ELSE EmptyBag

\* the call of _write_file and what follows it in the operation
WriteCore(p) ==
    /\ procs[p].pc = "write"
    /\ LET pr == [procs[p] EXCEPT !.nWrite = @ + 1]
           r == write_file(file, pr.data, pr.sha)
       IN IF r.ok
          THEN /\ file' = r.file
               /\ procs' = [q \in Procs |->
                      IF q = p THEN IdleProc
                      ELSE IF procs[q].pc = "write"
                           THEN Raced(procs[q], p, pr, r.file)
                           ELSE procs[q]]
               /\ timers' = timers (+) timer_started(pr, now)
               /\ last' = Done(pr, "ok")
               /\ cleaned' = IF pr.op = "cleanup"
                             THEN [valid |-> TRUE, at |-> pr.readNow, again |-> FALSE]
                             ELSE NotCleaned
          ELSE LET nxt == on_conflict(pr, file)
               IN /\ procs' = [procs EXCEPT ![p] = nxt]
                  /\ last' = IF nxt.pc = "idle" THEN Done(pr, "conflict") ELSE last
                  /\ UNCHANGED <<file, timers, cleaned>>
    /\ UNCHANGED <<now, ops, script>>

WriteStep(p) ==
    /\ WriteCore(p)
    /\ UNCHANGED expected

\* -------------------------------------------------------------- list_keys
\* a listing that leaves the expired entries out
list_keys_unexpired(data) ==
    SelectSeq(data, LAMBDA it : ~(it.e.expires_at.kind = "aware"
                                  /\ expired(it.e.expires_at, now)))

\* what list_keys prints and returns from the fetched data: every entry,
\* with its expires_at when it has one; the clock is not read
list_keys(data) == data

\* list_keys: one fetch, no write
ListKeys(p) ==
    /\ FirstIdle(p)
    /\ ops < MaxOps
    /\ LET got == get_file(file)
           pr == [IdleProc EXCEPT !.op = "list", !.sha = got.sha,
                       !.readNow = now, !.nFetch = 1]
       IN last' = [Done(pr, "listed") EXCEPT !.listed = list_keys(got.data)]
    /\ ops' = ops + 1
    /\ UNCHANGED <<file, now, procs, timers, expected, cleaned, script>>

\* ------------------------------------------------------------------- main
\* --duration arguments
DurationArgs == {"lifetime", "LIFETIME", "1", "1.5", "abc"}

\* str.lower() on the argument universe
lower(s) == IF s = "LIFETIME" THEN "lifetime" ELSE s

\* main: None for the word lifetime, else int(dur_arg); ok is FALSE when
\* int raises
parse_duration(dur_arg) ==
    IF lower(dur_arg) = "lifetime" THEN [ok |-> TRUE, duration |-> <<>>]
    ELSE IF dur_arg = "1" THEN [ok |-> TRUE, duration |-> <<1>>]
    ELSE [ok |-> FALSE, duration |-> <<>>]

\* GitHubKeyManager.__init__: Github.get_repo asks the API for the
\* repository; the key file is not read
manager_init == {"get_repo"}

\* main, command add, with a --duration that int() rejects: the manager is
\* constructed, then the message is printed and main returns
MainAddRejected(p, dur_arg) ==
    /\ FirstIdle(p)
    /\ ops < MaxOps
    /\ ~parse_duration(dur_arg).ok
    /\ last' = [NoLast EXCEPT !.op = "add", !.result = "invalid",
                              !.io = manager_init]
    /\ ops' = ops + 1
    /\ UNCHANGED <<file, now, procs, timers, expected, cleaned, script>>

\* ------------------------------------------------------------------ clock
Tick ==
    /\ now < MaxTime
    /\ now' = now + 1
    /\ UNCHANGED <<file, procs, timers, ops, last, expected, cleaned, script>>

\* ---------------------------------------------------------- specification
Init ==
    /\ file \in InitialFiles
    /\ now = 0
    /\ procs = [p \in Procs |-> IdleProc]
    /\ timers = EmptyBag
    /\ ops = 0
    /\ last = NoLast
    /\ expected = {}
    /\ cleaned = NotCleaned
    /\ script = NoScript

Next ==
    \/ \E p \in Procs, key_id \in KeyIds, duration \in Durations : AddKey(p, key_id, duration)
    \/ \E p \in Procs, key_id \in KeyIds : RemoveKey(p, key_id)
    \/ \E p \in Procs : CleanupExpired(p)
    \/ \E p \in Procs : WriteStep(p)
    \/ \E p \in Procs, tm \in BagToSet(timers) : TimerFire(p, tm)
    \/ \E p \in Procs : ListKeys(p)
    \/ \E p \in Procs, dur_arg \in DurationArgs : MainAddRejected(p, dur_arg)
    \/ ProcessExit
    \/ Tick

Spec == Init /\ [][Next]_vars

\* ------------------------------------------- calls made one after another
\* add_key and remove_key called one after another on a repository without
\* the file: a call starts when no other is in flight, no cleanup runs and
\* no timer fires.
AllIdle == \A q \in Procs : procs[q].pc = "idle"

SeqAddKey(p, key_id, duration) ==
    /\ AllIdle
    /\ AddKey(p, key_id, duration)

SeqRemoveKey(p, key_id) ==
    /\ AllIdle
    /\ RemoveKey(p, key_id)

SeqWrite(p) ==
    /\ WriteCore(p)
    /\ LET pr == procs[p]
           ok == write_file(file, pr.data, pr.sha).ok
       IN expected' = IF ok /\ pr.op = "add" THEN expected \cup {pr.id}
                      ELSE IF ok /\ pr.op = "remove" THEN expected \ {pr.id}
                      ELSE expected

InitSeq ==
    /\ Init
    /\ file = NoFile

NextSeq ==
    \/ \E p \in Procs, key_id \in KeyIds, duration \in Durations : SeqAddKey(p, key_id, duration)
    \/ \E p \in Procs, key_id \in KeyIds : SeqRemoveKey(p, key_id)
    \/ \E p \in Procs : SeqWrite(p)
    \/ ProcessExit
    \/ Tick

SpecSeq == InitSeq /\ [][NextSeq]_vars

\* -------------------------------------------------------- cleanup_keys.py
\* The standalone script works on two local files: key_data.json, a JSON
\* object from key to expiry timestamp, and Keys, a text file taken line by
\* line.  A text file is the sequence of its lines as readlines() returns
\* them, without their newline.
MaxLines == 2                          \* lines of the Keys file before a run

ScriptKeys == {"a", "b"}               \* keys of key_data.json
ScriptLines == {"a", " a", "b", ""}    \* lines of the Keys file
ExpiryTimes == 0..(MaxTime + 1)        \* expiry timestamps

NoKeysFile == [exists |-> FALSE, lines |-> <<>>]
KeysFile(lines) == [exists |-> TRUE, lines |-> lines]

\* key_data = json.load(f), or {} without the file
load_key_data(f) == IF f.exists THEN json_loads(f.items) ELSE <<>>

\* the test written <= instead of <
script_expired_or_due(exp_time, t) == exp_time <= t

\* exp_time < now
script_expired(exp_time, t) == exp_time < t

\* for key, exp_time in list(key_data.items()): pop the expired keys
RECURSIVE drop_expired(_, _, _)
drop_expired(items, key_data, t) ==
    IF items = <<>> THEN key_data
    ELSE drop_expired(Tail(items),
                      IF script_expired(Head(items).e, t)
                      THEN DictPop(key_data, Head(items).k)
                      ELSE key_data,
                      t)

\* lines = [line.strip() for line in f.readlines()]
read_lines(keys) == [i \in 1..Len(keys.lines) |-> strip(keys.lines[i])]

\* valid_keys = [k for k in lines if k in key_data]
valid_keys(lines, key_data) ==
    SelectSeq(lines, LAMBDA k : DictHas(key_data, StrKey(k)))

\* the lines of the text "\n".join(valid_keys) + "\n": the joined keys, and
\* for no key at all the text "\n", which is one empty line
join_lines(keys) == IF keys = <<>> THEN << "" >> ELSE keys

\* one run of the script at clock reading now
ScriptRun ==
    /\ LET loaded == load_key_data(script.data)
           key_data == drop_expired(loaded, loaded, now)
       IN script' =
            [data |-> JsonFile(json_dumps(key_data)),
             keys |-> IF script.keys.exists
                      THEN KeysFile(join_lines(
                               valid_keys(read_lines(script.keys), key_data)))
                      ELSE script.keys,
             ran |-> [valid |-> TRUE, at |-> now,
                      again |-> (script.ran.valid /\ script.ran.at = now),
                      data |-> script.data, keys |-> script.keys]]
    /\ UNCHANGED <<file, now, procs, timers, ops, last, expected, cleaned>>

\* key_data.json before the first run: absent, or any keys with any expiries
DataItems(f) ==
    (IF "a" \in DOMAIN f THEN << [k |-> "a", e |-> f["a"]] >> ELSE << >>)
    \o (IF "b" \in DOMAIN f THEN << [k |-> "b", e |-> f["b"]] >> ELSE << >>)

InitialData ==
    {NoFile} \cup
    {JsonFile(DataItems(f)) :
        f \in UNION {[S -> ExpiryTimes] : S \in SUBSET ScriptKeys}}

\* Keys before the first run: absent, or any lines
InitialKeys ==
    {NoKeysFile} \cup
    {KeysFile(l) : l \in UNION {[1..n -> ScriptLines] : n \in 0..MaxLines}}

InitScript ==
    /\ file = NoFile
    /\ now = 0
    /\ procs = [p \in Procs |-> IdleProc]
    /\ timers = EmptyBag
    /\ ops = 0
    /\ last = NoLast
    /\ expected = {}
    /\ cleaned = NotCleaned
    /\ script \in {[NoScript EXCEPT !.data = d, !.keys = k] :
                      d \in InitialData, k \in InitialKeys}

NextScript ==
    \/ ScriptRun
    \/ Tick

SpecScript == InitScript /\ [][NextScript]_vars

\* ================================================================ claims
\* what a fetch of the file f yields, and the ids in it
Fetched(f) == get_file(f).data
Ids(f) == {k.s : k \in DictKeys(Fetched(f))}

\* the write of p's operation is being attempted / is accepted in this step
Accepted(p) ==
    /\ WriteStep(p)
    /\ last'.result = "ok"

\* ---------------------------------------------------------------- C1
\* C1: when two operations fetched the same version of the file before
\* either wrote, and the first of them has written (the one write since the
\* second's fetch), the second's write is refused as a conflict and the
\* file stays exactly what the first writer wrote; this includes two
\* operations that both fetched "no file" and both call create_file.
C1_StaleWriteRejected ==
    [][\A p \in Procs :
         (WriteStep(p) /\ procs[p].since = 1 /\ procs[p].racer # "")
         => /\ file' = file
            /\ file' = procs[p].racerWrote
            /\ last'.result = "conflict"
            /\ procs'[p] = IdleProc]_vars

\* a write lost such a race and was refused
C1_Witness ==
    /\ last.result = "conflict"
    /\ last.raced
    /\ file.exists

\* ---------------------------------------------------------------- C2
\* C2: an invocation fetches once and attempts one write; a refused write
\* ends the operation at once (no second fetch, no retry, no merge), its
\* mutated copy is dropped and the file is left as it was.
C2_OneFetchOneWrite ==
    [][\A p \in Procs :
         /\ procs'[p].nFetch <= 1
         /\ procs'[p].nWrite = 0
         /\ WriteStep(p) => (procs[p].nFetch = 1 /\ procs[p].nWrite = 0)
         /\ (WriteStep(p) /\ ~write_file(file, procs[p].data, procs[p].sha).ok)
            => /\ file' = file
               /\ procs'[p] = IdleProc
               /\ last'.result = "conflict"]_vars

\* an operation ended on a refused write
C2_Witness ==
    /\ last.result = "conflict"
    /\ \A p \in Procs : procs[p].pc = "idle"

\* ---------------------------------------------------------------- C3
\* C3: after add_key and remove_key calls made one after another, the ids
\* in the file are the ids passed to add_key minus the ids passed to the
\* remove_key calls that succeeded, whatever the id strings are.
C3_IdsAreAddsMinusRemoves ==
    AllIdle => Ids(file) = expected

\* ---------------------------------------------------------------- C4
\* the entries the claim says a cleanup at clock reading t removes
Qualifies(e, t) ==
    /\ e.expires_at.kind # "null"
    /\ \/ e.expires_at.kind = "bad"
       \/ e.expires_at.kind = "aware" /\ e.expires_at.t <= t

KeepTest(it, t) == ~Qualifies(it.e, t)

\* C4: a successful cleanup_expired at clock reading t writes exactly the
\* fetched document without the entries whose expires_at is non-null and
\* unparsable or <= t; the others are kept unchanged.
C4_CleanupWritesExactly ==
    [][\A p \in Procs :
         (Accepted(p) /\ procs[p].op = "cleanup")
         => Fetched(file') =
              SelectSeq(Fetched(procs[p].sha),
                        LAMBDA it : KeepTest(it, procs[p].readNow))]_vars

\* a cleanup wrote: the unparsable entry and the one expiring at this very
\* second are gone, the lifetime entry is kept
C4_Witness ==
    /\ last.op = "cleanup"
    /\ last.result = "ok"
    /\ now = 1
    /\ file = JsonFile(<< [k |-> "a", e |-> MkEntry("v0", ExpNull, "x", Stamp(0, 0))] >>)

\* ---------------------------------------------------------------- C5
\* C5: add_key at clock reading T with a ttl stores expires_at = T + ttl,
\* and a successful cleanup_expired at clock reading t keeps every entry
\* with t < expires_at and leaves no entry with t >= expires_at, timers or
\* no timers.
C5_TtlHonouredByCleanup ==
    [][\A p \in Procs :
         /\ (Accepted(p) /\ procs[p].op = "add" /\ procs[p].duration # <<>>)
            => /\ DictHas(Fetched(file'), StrKey(procs[p].stored))
               /\ DictGet(Fetched(file'), StrKey(procs[p].stored)).expires_at
                    = ExpAware(procs[p].readNow + procs[p].duration[1])
         /\ (Accepted(p) /\ procs[p].op = "cleanup")
            => LET before == Fetched(procs[p].sha)
                   after == Fetched(file')
               IN \A i \in 1..Len(before) :
                    before[i].e.expires_at.kind = "aware"
                    => IF procs[p].readNow < before[i].e.expires_at.t
                       THEN /\ DictHas(after, before[i].k)
                            /\ DictGet(after, before[i].k) = before[i].e
                       ELSE ~DictHas(after, before[i].k)]_vars

\* a cleanup removed a key whose timer has not fired
C5_Witness ==
    /\ last.op = "cleanup"
    /\ last.result = "ok"
    /\ \E tm \in BagToSet(timers) : now >= tm.fire /\ tm.id \notin Ids(file)

\* ---------------------------------------------------------------- C6
\* C6: add_key without a ttl stores expires_at null, and no cleanup_expired
\* ever lists or removes an entry whose expires_at is null.
C6_LifetimeKeptByCleanup ==
    [][\A p \in Procs :
         /\ (Accepted(p) /\ procs[p].op = "add" /\ procs[p].duration = <<>>)
            => /\ DictHas(Fetched(file'), StrKey(procs[p].stored))
               /\ DictGet(Fetched(file'), StrKey(procs[p].stored)).expires_at = ExpNull
         /\ (procs'[p].op = "cleanup" /\ procs'[p].pc = "write")
            => \A i \in 1..Len(Fetched(procs'[p].sha)) :
                 LET it == Fetched(procs'[p].sha)[i]
                 IN it.e.expires_at = ExpNull
                    => /\ DictHas(procs'[p].data, it.k)
                       /\ DictGet(procs'[p].data, it.k) = it.e
         /\ (Accepted(p) /\ procs[p].op = "cleanup")
            => \A i \in 1..Len(Fetched(file)) :
                 LET it == Fetched(file)[i]
                 IN it.e.expires_at = ExpNull
                    => /\ DictHas(Fetched(file'), it.k)
                       /\ DictGet(Fetched(file'), it.k) = it.e]_vars

\* a cleanup wrote and a key that add_key stored without ttl is still there
C6_Witness ==
    /\ last.op = "cleanup"
    /\ last.result = "ok"
    /\ \E i \in 1..Len(Fetched(file)) :
         /\ Fetched(file)[i].e.value = KeyValue
         /\ Fetched(file)[i].e.expires_at = ExpNull

\* ---------------------------------------------------------------- C7
\* C7 as stated: a cleanup_expired run that follows a completed run, with
\* no write to the file in between, removes nothing and writes nothing.
C7_SecondCleanupRemovesNothing ==
    [][\A p \in Procs :
         (CleanupExpired(p) /\ cleaned.valid)
         => /\ procs'[p] = IdleProc
            /\ last'.result = "noop"]_vars

\* the keys whose expiry lies after clock reading t1 and not after t2
NewlyExpired(d, t1, t2) ==
    {d[i].k : i \in {j \in 1..Len(d) :
                       /\ d[j].e.expires_at.kind = "aware"
                       /\ t1 < d[j].e.expires_at.t
                       /\ d[j].e.expires_at.t <= t2}}

\* C7 amended: such a second run removes exactly the entries whose
\* expires_at lies after the first run's clock reading and not after its
\* own; when there is none it removes nothing and writes nothing.
C7_SecondCleanupOnlyNewlyExpired ==
    [][\A p \in Procs :
         (CleanupExpired(p) /\ cleaned.valid)
         => LET due == NewlyExpired(Fetched(file), cleaned.at, now)
            IN IF due = {}
               THEN /\ procs'[p] = IdleProc
                    /\ last'.result = "noop"
                    /\ file' = file
               ELSE /\ procs'[p].pc = "write"
                    /\ DictKeys(procs'[p].data) = DictKeys(Fetched(file)) \ due]_vars

\* a second run in a row found nothing to remove in a file that has entries
C7_Witness ==
    /\ cleaned.valid
    /\ cleaned.again
    /\ last.op = "cleanup"
    /\ last.result = "noop"
    /\ Ids(file) # {}

\* ---------------------------------------------------------------- C8
\* nothing in the document qualifies for removal at clock reading t
NothingQualifies(d, t) ==
    \A i \in 1..Len(d) :
        \/ d[i].e.expires_at.kind = "null"
        \/ d[i].e.expires_at.kind = "aware" /\ d[i].e.expires_at.t > t

\* C8: a cleanup_expired that finds no entry to remove (no file, empty
\* document, only lifetime and not yet expired entries) attempts no write:
\* the operation is over and the file is what it was.
C8_NothingToRemoveNoWrite ==
    [][\A p \in Procs :
         (CleanupExpired(p) /\ NothingQualifies(Fetched(file), now))
         => /\ file' = file
            /\ procs'[p] = IdleProc
            /\ last'.result = "noop"]_vars

\* a cleanup returned without writing on a document that has entries
C8_Witness ==
    /\ last.op = "cleanup"
    /\ last.result = "noop"
    /\ Ids(file) # {}
    /\ NothingQualifies(Fetched(file), now)
    /\ ~cleaned.again

\* ---------------------------------------------------------------- C9
\* C9: remove_key of an id that, stripped, is not in the fetched document
\* reports not-found and attempts no write; a successful remove_key leaves
\* the stripped id absent, so that removing it again reports not-found.
C9_RemoveAbsentNotFound ==
    [][\A p \in Procs :
         /\ \A key_id \in KeyIds :
              (RemoveKey(p, key_id) /\ strip(key_id) \notin Ids(file))
              => /\ last'.result = "notfound"
                 /\ last'.op = "remove"
                 /\ file' = file
                 /\ procs'[p] = IdleProc
         /\ (Accepted(p) /\ procs[p].op = "remove")
            => strip(procs[p].id) \notin Ids(file')]_vars

\* a remove_key reported not-found on a document that has other ids
C9_Witness ==
    /\ last.op = "remove"
    /\ last.origin = "caller"
    /\ last.result = "notfound"
    /\ Ids(file) # {}

\* ---------------------------------------------------------------- C10
\* C10: once add_key(id, v, None, by) has written, a fetch yields an entry
\* under the string id itself, with value v, added_by by and expires_at
\* null.
C10_RoundTrip ==
    [][\A p \in Procs :
         (Accepted(p) /\ procs[p].op = "add" /\ procs[p].duration = <<>>)
         => /\ DictHas(Fetched(file'), StrKey(procs[p].id))
            /\ LET e == DictGet(Fetched(file'), StrKey(procs[p].id))
               IN /\ e.value = KeyValue
                  /\ e.added_by = AddedBy
                  /\ e.expires_at = ExpNull]_vars

\* ---------------------------------------------------------------- C11
\* the member names of a JSON text are pairwise distinct
DistinctNames(items) ==
    \A i, j \in 1..Len(items) : i # j => items[i].k # items[j].k

\* C11: every document written by add_key, remove_key or cleanup_expired
\* has at most one member per id, also when add_key is called with a
\* numeric-looking id that the fetched document already holds.
C11_OneEntryPerId ==
    [][\A p \in Procs :
         Accepted(p) => DistinctNames(file'.items)]_vars

\* ---------------------------------------------------------------- C12
\* C12: a removal run by a timer never ends on an uncaught exception; when
\* the timer fires and its key is no longer in the document, the removal
\* reports not-found and attempts no write; when its write is refused the
\* conflict is caught in the callback; in both cases the file is left as
\* it was.
C12_TimerRemovalIsBenign ==
    [][\A p \in Procs :
         /\ last'.origin = "timer" => ~last'.uncaught
         /\ \A tm \in BagToSet(timers) :
              (TimerFire(p, tm) /\ tm.id \notin Ids(file))
              => /\ last'.result = "notfound"
                 /\ last'.origin = "timer"
                 /\ procs'[p] = IdleProc
                 /\ file' = file
         /\ (WriteStep(p) /\ procs[p].origin = "timer"
               /\ ~write_file(file, procs[p].data, procs[p].sha).ok)
            => /\ last'.result = "conflict"
               /\ last'.origin = "timer"
               /\ procs'[p] = IdleProc
               /\ file' = file]_vars

\* ---------------------------------------------------------------- C13
\* C13: list_keys never writes: whatever the document holds, entries whose
\* expires_at has passed included, the file and its sha are the same
\* before and after, no write is pending, and every fetched entry, the
\* expired ones too, is in the listing.
C13_ListKeysWritesNothing ==
    [][\A p \in Procs :
         ListKeys(p)
         => /\ file' = file
            /\ get_file(file').sha = get_file(file).sha
            /\ procs'[p] = IdleProc
            /\ last'.op = "list"
            /\ \A i \in 1..Len(Fetched(file)) :
                 /\ DictHas(last'.listed, Fetched(file)[i].k)
                 /\ DictGet(last'.listed, Fetched(file)[i].k) = Fetched(file)[i].e]_vars

\* a listing held an entry whose expires_at had passed, and the entry is
\* still in the file
C13_Witness ==
    /\ last.op = "list"
    /\ \E i \in 1..Len(last.listed) :
         /\ last.listed[i].e.expires_at.kind = "aware"
         /\ last.listed[i].e.expires_at.t <= now
         /\ DictHas(Fetched(file), last.listed[i].k)
         /\ DictGet(Fetched(file), last.listed[i].k) = last.listed[i].e

\* ---------------------------------------------------------------- C14
\* C14: a file whose content is not valid JSON is fetched as the empty
\* document together with the sha of that content, and an add_key that
\* fetched it and writes with no other write in between is accepted and
\* leaves a document holding exactly the one entry it added.
C14_MalformedFetchedAsEmpty ==
    [][\A p \in Procs :
         /\ (file.exists /\ ~file.valid)
            => /\ get_file(file).data = <<>>
               /\ get_file(file).sha = file
               /\ get_file(file).sha.exists
         /\ (WriteStep(p) /\ procs[p].op = "add"
               /\ procs[p].sha.exists /\ ~procs[p].sha.valid
               /\ file = procs[p].sha)
            => /\ last'.result = "ok"
               /\ file'.exists /\ file'.valid
               /\ Len(Fetched(file')) = 1
               /\ Fetched(file')[1].k = StrKey(procs[p].stored)
               /\ Fetched(file')[1].e.value = KeyValue
               /\ Fetched(file')[1].e.added_by = AddedBy
               /\ Fetched(file')[1].e.expires_at
                    = expires_at_iso(procs[p].duration, procs[p].readNow)]_vars

\* an add_key that fetched a malformed content has written, and the file
\* holds its one entry
C14_Witness ==
    /\ last.op = "add"
    /\ last.result = "ok"
    /\ last.malformed
    /\ Len(Fetched(file)) = 1
    /\ Fetched(file)[1].e.value = KeyValue

\* ---------------------------------------------------------------- C15
\* C15: an add command whose --duration is neither an integer nor the
\* word lifetime is rejected before any I/O: no request is made, the file
\* is neither fetched nor written, no operation is left in flight, no
\* timer is started, no cleanup runs and the file is what it was.
C15_InvalidDurationNoIO ==
    [][\A p \in Procs, dur_arg \in DurationArgs :
         MainAddRejected(p, dur_arg)
         => /\ last'.result = "invalid"
            /\ last'.io = {}
            /\ file' = file
            /\ procs' = procs
            /\ timers' = timers
            /\ cleaned' = cleaned]_vars

\* ---------------------------------------------------------------- C16
\* C16: a write made by a timer's removal or by cleanup_expired removes no
\* entry before the entry's own expires_at and no entry whose expires_at
\* is null, whatever operations came before, also when the id was added
\* with a ttl and added again with a later expiry or none before the first
\* timer fired.
C16_NoEarlyAutomaticRemoval ==
    [][\A p \in Procs :
         (Accepted(p) /\ (procs[p].origin = "timer" \/ procs[p].op = "cleanup"))
         => \A i \in 1..Len(Fetched(file)) :
              LET it == Fetched(file)[i]
              IN ~DictHas(Fetched(file'), it.k)
                 => /\ it.e.expires_at.kind # "null"
                    /\ it.e.expires_at.kind = "aware"
                       => it.e.expires_at.t <= now]_vars

\* ---------------------------------------------------------------- C17
\* the id whose entry an operation is called to change: the id given to
\* add_key, the id given to remove_key without surrounding whitespace
TargetId(pr) == IF pr.op = "remove" THEN strip(pr.id) ELSE pr.id

\* C17: an accepted add_key(id, ...) or remove_key(id) changes only the
\* entry of id: every other entry of the document it fetched is found,
\* with the same value, expires_at, added_by and added_at, by a fetch of
\* the document it wrote.
C17_OtherEntriesUntouched ==
    [][\A p \in Procs :
         (Accepted(p) /\ procs[p].op \in {"add", "remove"})
         => LET before == Fetched(procs[p].sha)
                after == Fetched(file')
            IN \A i \in 1..Len(before) :
                 before[i].k.s # TargetId(procs[p])
                 => /\ DictHas(after, before[i].k)
                    /\ DictGet(after, before[i].k) = before[i].e]_vars

\* ---------------------------------------------------------------- C18
\* C18: add_key starts exactly one timer, for the id it stored, when it is
\* given a duration and its write is accepted; it starts none when the
\* duration is None or the write is refused, and none before the write:
\* a timer is only ever started for an entry the same step has put in the
\* file.
C18_OneTimerAfterWrite ==
    [][\A p \in Procs :
         /\ \A key_id \in KeyIds, duration \in Durations :
              AddKey(p, key_id, duration) => timers' = timers
         /\ (WriteStep(p) /\ procs[p].op = "add")
            => IF last'.result = "ok" /\ procs[p].duration # <<>>
               THEN /\ BagCardinality(timers') = BagCardinality(timers) + 1
                    /\ \E tm \in BagToSet(timers') :
                         /\ tm.id = procs[p].stored
                         /\ tm.fire = now + procs[p].duration[1]
                         /\ CopiesIn(tm, timers') = CopiesIn(tm, timers) + 1
                         /\ DictHas(Fetched(file'), StrKey(tm.id))
                         /\ DictGet(Fetched(file'), StrKey(tm.id)).expires_at
                              = ExpAware(procs[p].readNow + procs[p].duration[1])
               ELSE timers' = timers
         /\ (WriteStep(p) /\ procs[p].op # "add") => timers' = timers]_vars

\* an add_key with a duration has written and its timer is pending, and an
\* add_key whose write was refused has left no timer of its own
C18_Witness ==
    /\ last.op = "add"
    /\ last.result = "conflict"
    /\ BagCardinality(timers) = 1
    /\ \E tm \in BagToSet(timers) : tm.id \in Ids(file)

\* ---------------------------------------------------------------- C19
\* the keys of a key_data.json
ScriptIds(f) == {f.items[i].k : i \in 1..Len(f.items)}

\* the trimmed previous Keys lines whose trimmed text is a key of the
\* key_data.json d, in their order
KeptLines(keys, d) ==
    SelectSeq([i \in 1..Len(keys.lines) |-> strip(keys.lines[i])],
              LAMBDA l : l \in ScriptIds(d))

\* after a run at clock reading now, key_data.json holds exactly the
\* entries it held whose expiry is >= now
DataFiltered ==
    /\ script'.data.exists /\ script'.data.valid
    /\ script'.data.items =
         SelectSeq(script.data.items, LAMBDA it : it.e >= now)

\* a second run at the same clock reading changes neither file
SecondRunChangesNothing ==
    (script.ran.valid /\ script.ran.at = now)
    => /\ script'.data = script.data
       /\ script'.keys = script.keys

\* C19 as stated: after a run at now, key_data.json holds exactly the
\* previous entries with expiry >= now, the Keys file holds exactly the
\* previous lines whose trimmed text is a key still in key_data, in their
\* order, and a second run at the same now changes neither file.
C19_ScriptKeepsExactly ==
    [][ScriptRun
       => /\ DataFiltered
          /\ script.keys.exists
             => /\ script'.keys.exists
                /\ script'.keys.lines = KeptLines(script.keys, script'.data)
          /\ ~script.keys.exists => script'.keys = script.keys
          /\ SecondRunChangesNothing]_vars

\* C19 amended: the same, the Keys file holding one empty line when no
\* previous line is kept.
C19_ScriptKeepsOrOneEmptyLine ==
    [][ScriptRun
       => /\ DataFiltered
          /\ script.keys.exists
             => /\ script'.keys.exists
                /\ IF KeptLines(script.keys, script'.data) = << >>
                   THEN script'.keys.lines = << "" >>
                   ELSE script'.keys.lines = KeptLines(script.keys, script'.data)
          /\ ~script.keys.exists => script'.keys = script.keys
          /\ SecondRunChangesNothing]_vars

\* a second run at the same clock reading has happened, after a first one
\* that kept an entry expiring at that very reading; the Keys file holds a
\* kept key
C19_Witness ==
    /\ script.ran.valid
    /\ script.ran.again
    /\ \E i \in 1..Len(script.data.items) : script.data.items[i].e = script.ran.at
    /\ script.keys.exists
    /\ script.keys.lines # << >>
    /\ script.keys.lines # << "" >>

====
